---------------------------- MODULE Spec2Model ----------------------------
(***************************************************************************)
(* A model of the plain-front-coding dictionary section of hdt-rs          *)
(* (src/src/dict/dict_sect_pfc.rs): DictSectPFC::read, which parses and    *)
(* checksums a section from a byte stream, and the two lookups on the      *)
(* section it returns, extract (id_to_string) and locate (string_to_id).   *)
(*                                                                         *)
(* Bytes are integers 0..255, byte strings and buffers are sequences of    *)
(* bytes with TLA+'s 1-based indexing: the Rust offset p is the TLA+ index *)
(* p + 1.  Offsets, positions and ids keep the source's 0-based values.    *)
(***************************************************************************)
EXTENDS Integers, Sequences, FiniteSets, TLC

(***************************************************************************)
(* Bounds of the model.                                                    *)
(***************************************************************************)
\* The largest number of strings of a dictionary the writer encodes.
MaxStrings == 3
\* The largest block size the writer encodes with.
MaxBlockSize == 3
\* usize is modelled UsizeBits wide: what `0 - 1` wraps to in a build
\* without overflow checks is 2^UsizeBits - 1.
UsizeBits == 16

UsizeMax == (2 ^ UsizeBits) - 1

\* The byte strings dictionaries and needles are drawn from: "a", "aa",
\* "ab", "b", "ba", and the single byte 0xFF, which is no valid UTF-8.
Universe ==
    { <<97>>, <<97, 97>>, <<97, 98>>, <<98>>, <<98, 97>>, <<255>> }

\* The needles string_to_id is called with: the universe and the empty string.
Needles == Universe \cup { <<>> }

(***************************************************************************)
(* Bytes and byte strings.                                                 *)
(***************************************************************************)
Min(a, b) == IF a <= b THEN a ELSE b

RECURSIVE XorBits(_, _, _)
\* The exclusive or of the n low bits of a and b.
XorBits(a, b, n) ==
    IF n = 0 THEN 0
    ELSE ((a + b) % 2) + 2 * XorBits(a \div 2, b \div 2, n - 1)

\* The exclusive or of two bytes, tabulated.
XorTable == [a \in 0..255 |-> [b \in 0..255 |-> XorBits(a, b, 8)]]

Xor8(a, b) == XorTable[a][b]
Xor16(a, b) ==
    Xor8(a % 256, b % 256) + 256 * Xor8(a \div 256, b \div 256)

\* buf[from .. to) with 0-based offsets, as the Rust slice buf[from..to].
Slice(buf, from, to) == SubSeq(buf, from + 1, to)

RECURSIVE CmpBytes(_, _)
\* <[u8] as Ord>::cmp, which str::cmp is: byte-wise lexicographic order,
\* a proper prefix before its extensions. -1 Less, 0 Equal, 1 Greater.
CmpBytes(a, b) ==
    IF a = <<>> /\ b = <<>> THEN 0
    ELSE IF a = <<>> THEN -1
    ELSE IF b = <<>> THEN 1
    ELSE IF Head(a) < Head(b) THEN -1
    ELSE IF Head(a) > Head(b) THEN 1
    ELSE CmpBytes(Tail(a), Tail(b))

\* str::from_utf8 succeeds. Every byte of a block store the model reaches is
\* ASCII or 0xFF; for such strings UTF-8 validity is "every byte is ASCII".
ValidUtf8(s) == \A i \in 1..Len(s) : s[i] < 128

(***************************************************************************)
(* crc_any's CRCu8::crc8(): CRC-8 with polynomial 0x07, initial value 0,   *)
(* no reflection, no final xor, driven by a table of the 256 byte steps.   *)
(***************************************************************************)
RECURSIVE Crc8Shift(_, _)
\* n shifts of the register c, most significant bit first.
Crc8Shift(c, n) ==
    IF n = 0 THEN c
    ELSE LET d == IF c >= 128 THEN XorBits((c * 2) % 256, 7, 8) ELSE c * 2
         IN  Crc8Shift(d, n - 1)

Crc8Table == [c \in 0..255 |-> Crc8Shift(c, 8)]

RECURSIVE Crc8Digest(_, _)
\* (crc < 0 never holds: the test makes TLC evaluate the register before it
\* recurses, which keeps the evaluation shallow.)
Crc8Digest(crc, bytes) ==
    IF bytes = <<>> \/ crc < 0 THEN crc
    ELSE Crc8Digest(Crc8Table[Xor8(crc, Head(bytes))], Tail(bytes))

Crc8(bytes) == Crc8Digest(0, bytes)

(***************************************************************************)
(* crc_any's CRCu32::crc32c(): CRC-32C (Castagnoli), reflected polynomial  *)
(* 0x82F63B78, initial value and final xor 0xFFFFFFFF, driven by a table   *)
(* of the 256 byte steps.  The 32-bit register is the pair                 *)
(* <<low 16 bits, high 16 bits>>.                                          *)
(***************************************************************************)
RECURSIVE Crc32cShift(_, _)
\* n shifts of the register c, least significant bit first.
Crc32cShift(c, n) ==
    IF n = 0 \/ c[1] < 0 THEN c
    ELSE LET lo == (c[1] \div 2) + (c[2] % 2) * 32768
             hi == c[2] \div 2
         IN  Crc32cShift(IF c[1] % 2 = 1
                         THEN <<XorBits(lo, 15224, 16), XorBits(hi, 33526, 16)>>
                         ELSE <<lo, hi>>, n - 1)

Crc32cTable == [b \in 0..255 |-> Crc32cShift(<<b, 0>>, 8)]

RECURSIVE Crc32cDigest(_, _)
\* crc = table[(crc ^ byte) & 0xFF] ^ (crc >> 8).
Crc32cDigest(crc, bytes) ==
    IF bytes = <<>> \/ crc[1] < 0 THEN crc
    ELSE LET t == Crc32cTable[Xor8(crc[1] % 256, Head(bytes))]
         IN  Crc32cDigest(
                <<Xor16(t[1], (crc[1] \div 256) + 256 * (crc[2] % 256)),
                  Xor16(t[2], crc[2] \div 256)>>,
                Tail(bytes))

\* The checksum as the four bytes of its little-endian encoding, the form in
\* which u32::from_le_bytes reads the stored one.
Crc32c(bytes) ==
    LET c == Crc32cDigest(<<65535, 65535>>, bytes)
        lo == 65535 - c[1]
        hi == 65535 - c[2]
    IN  <<lo % 256, lo \div 256, hi % 256, hi \div 256>>

(***************************************************************************)
(* crate::containers::vbyte (not among the sources): a self-delimiting     *)
(* unsigned integer, 7 value bits per byte, least significant group first, *)
(* the high bit set on every byte but the last.                            *)
(***************************************************************************)
RECURSIVE EncodeVByte(_)
\* The writer's side of the codec.
EncodeVByte(v) ==
    IF v < 128 THEN <<v>>
    ELSE <<128 + (v % 128)>> \o EncodeVByte(v \div 128)

RECURSIVE VByteFrom(_, _, _)
\* The varint that starts at offset off of buf, its groups weighted from
\* 2^shift on: [ok, value, size]. It fails when buf ends before a byte with
\* a clear high bit, and when the value does not fit a usize.
VByteFrom(buf, off, shift) ==
    IF off >= Len(buf) \/ shift > UsizeBits
    THEN [ok |-> FALSE, value |-> 0, size |-> 0]
    ELSE LET b == buf[off + 1]
             v == (b % 128) * (2 ^ shift)
         IN  IF v > UsizeMax
             THEN [ok |-> FALSE, value |-> 0, size |-> 0]
             ELSE IF b < 128
             THEN [ok |-> TRUE, value |-> v, size |-> 1]
             ELSE LET r == VByteFrom(buf, off + 1, shift + 7)
                  IN  IF r.ok /\ v + r.value <= UsizeMax
                      THEN [ok |-> TRUE, value |-> v + r.value,
                            size |-> r.size + 1]
                      ELSE [ok |-> FALSE, value |-> 0, size |-> 0]

\* read_vbyte(reader), the reader standing at offset off of the stream: the
\* value and the raw bytes read.
read_vbyte(buf, off) == VByteFrom(buf, off, 0)

\* decode_vbyte_delta(&packed_data, position): (delta, vbyte_bytes). It
\* returns no Result: a varint that runs off the buffer is a panic (ok FALSE).
decode_vbyte_delta(buf, position) == VByteFrom(buf, position, 0)

(***************************************************************************)
(* crate::containers::Sequence (not among the sources): the packed index,  *)
(* entries integers of bits_per_entry bits each, packed contiguously,      *)
(* little-endian bit order.  On the wire: the entry count (a varint), the  *)
(* bits-per-entry byte, the packed payload.                                *)
(***************************************************************************)
CeilDiv(a, b) == (a + b - 1) \div b

\* Bit j of a packed payload.
PayloadBit(data, j) == (data[(j \div 8) + 1] \div (2 ^ (j % 8))) % 2

RECURSIVE BitsValue(_, _, _)
\* The n bits of data from bit j on, as an integer.
BitsValue(data, j, n) ==
    IF n = 0 THEN 0
    ELSE PayloadBit(data, j) + 2 * BitsValue(data, j + 1, n - 1)

\* Sequence::get(index): [ok, value]; it fails when index >= entries.
SequenceGet(seq, index) ==
    IF index >= seq.entries
    THEN [ok |-> FALSE, value |-> 0]
    ELSE [ok |-> TRUE,
          value |-> BitsValue(seq.data, index * seq.bits_per_entry,
                              seq.bits_per_entry)]

\* Sequence::read(reader), the reader standing at offset off of the stream:
\* [ok, seq, size].
SequenceRead(buf, off) ==
    LET e == read_vbyte(buf, off)
        none == [ok |-> FALSE,
                 seq |-> [entries |-> 0, bits_per_entry |-> 0, data |-> <<>>],
                 size |-> 0]
    IN  IF ~e.ok \/ off + e.size >= Len(buf) THEN none
        ELSE LET bits == buf[off + e.size + 1]
                 start == off + e.size + 1
                 n == CeilDiv(bits * e.value, 8)
             IN  IF bits > UsizeBits \/ start + n > Len(buf) THEN none
                 ELSE [ok |-> TRUE,
                       seq |-> [entries |-> e.value, bits_per_entry |-> bits,
                                data |-> Slice(buf, start, start + n)],
                       size |-> e.size + 1 + n]

(***************************************************************************)
(* The writer of a section (not among the sources): what puts a sorted     *)
(* dictionary on the wire in the layout read parses.  It makes the streams *)
(* the model starts from.                                                  *)
(***************************************************************************)
RECURSIVE LongestCommonPrefix(_, _, _)
\* ByteStringUtil.longestCommonPrefix(str1, str2, from): the number of
\* positions from `from` on at which the two strings agree.
LongestCommonPrefix(str1, str2, from) ==
    IF from < Min(Len(str1), Len(str2)) /\ str1[from + 1] = str2[from + 1]
    THEN 1 + LongestCommonPrefix(str1, str2, from + 1)
    ELSE 0

\* The sorted dictionaries: strictly ascending sequences of strings.
Dictionaries ==
    { d \in UNION { [1..n -> Universe] : n \in 0..MaxStrings } :
        \A i \in 1..(Len(d) - 1) : CmpBytes(d[i], d[i + 1]) = -1 }

\* Entry i (1-based) of dictionary d in a store of blocks of bs strings: the
\* first of a block whole, the others as (shared prefix length, suffix).
FrontCoded(d, bs, i) ==
    IF (i - 1) % bs = 0 THEN d[i] \o <<0>>
    ELSE LET shared == LongestCommonPrefix(d[i - 1], d[i], 0)
         IN  EncodeVByte(shared) \o Slice(d[i], shared, Len(d[i])) \o <<0>>

RECURSIVE BlockStore(_, _, _)
\* The block store of the first n strings of d.
BlockStore(d, bs, n) ==
    IF n = 0 THEN <<>>
    ELSE BlockStore(d, bs, n - 1) \o FrontCoded(d, bs, n)

\* The byte offset of each block's first string, and with extra = 1 one more
\* entry, the length of the store (the layout of hdt-java, whose blocks
\* array ends with the end offset).
BlockOffsets(d, bs, extra) ==
    LET blocks == CeilDiv(Len(d), bs)
    IN  [b \in 1..(blocks + extra) |->
            Len(BlockStore(d, bs, Min((b - 1) * bs, Len(d))))]

RECURSIVE BitsFor(_)
\* ceil(log2(v + 1)).
BitsFor(v) == IF v = 0 THEN 0 ELSE 1 + BitsFor(v \div 2)

SeqMax(vals) ==
    IF vals = <<>> THEN 0
    ELSE CHOOSE m \in { vals[i] : i \in 1..Len(vals) } :
            \A i \in 1..Len(vals) : vals[i] <= m

\* Bit j of the packed payload of vals.
PackedBit(vals, bits, j) ==
    IF j >= bits * Len(vals) THEN 0
    ELSE (vals[(j \div bits) + 1] \div (2 ^ (j % bits))) % 2

PackedByte(vals, bits, k) ==
    PackedBit(vals, bits, 8 * k) + 2 * PackedBit(vals, bits, 8 * k + 1)
    + 4 * PackedBit(vals, bits, 8 * k + 2) + 8 * PackedBit(vals, bits, 8 * k + 3)
    + 16 * PackedBit(vals, bits, 8 * k + 4) + 32 * PackedBit(vals, bits, 8 * k + 5)
    + 64 * PackedBit(vals, bits, 8 * k + 6) + 128 * PackedBit(vals, bits, 8 * k + 7)

\* The packed index on the wire.
SequenceBytes(vals) ==
    LET bits == BitsFor(SeqMax(vals))
    IN  EncodeVByte(Len(vals)) \o <<bits>>
        \o [k \in 1..CeilDiv(bits * Len(vals), 8) |-> PackedByte(vals, bits, k - 1)]

\* The three header varints: num_strings, packed_length, block_size.
HeaderBytes(num_strings, packed_length, block_size) ==
    EncodeVByte(num_strings) \o EncodeVByte(packed_length)
    \o EncodeVByte(block_size)

\* The section of dictionary d in blocks of bs strings, after its marker
\* byte 0x02 (which the caller of read consumes); hbs is the block size the
\* header states.
SectionBytes(d, bs, extra, hbs) ==
    LET store == BlockStore(d, bs, Len(d))
        header == HeaderBytes(Len(d), Len(store), hbs)
    IN  header \o <<Crc8(<<2>> \o header)>>
        \o SequenceBytes(BlockOffsets(d, bs, extra))
        \o store \o Crc32c(store)

\* The section of dictionary d written with the last byte of its block
\* store, the zero byte of the last string, left out: the header states the
\* shorter length and both checksums are those of what is written.
UnterminatedBytes(d, bs, extra) ==
    LET full == BlockStore(d, bs, Len(d))
        store == Slice(full, 0, Len(full) - 1)
        header == HeaderBytes(Len(d), Len(store), bs)
    IN  header \o <<Crc8(<<2>> \o header)>>
        \o SequenceBytes(BlockOffsets(d, bs, extra))
        \o store \o Crc32c(store)

\* The stream with bit `mask` of the byte at offset p flipped.
FlipBit(bytes, p, mask) ==
    [bytes EXCEPT ![p + 1] =
        IF (bytes[p + 1] \div mask) % 2 = 1 THEN bytes[p + 1] - mask
        ELSE bytes[p + 1] + mask]

(***************************************************************************)
(* The state: the stream read is given, the locals of read, the section it *)
(* returns, and the locals of one lookup on that section.                  *)
(***************************************************************************)
VARIABLES
    written,      \* what the writer was given (the stream's provenance)
    stream,       \* the bytes behind the reader, after the marker byte
    rpc,          \* where read stands: start, crc8, sequence, data, crc32, ok, err
    offset,       \* the bytes of the stream consumed by the reads that succeeded
    buffer,       \* read's buffer: 0x02 and the raw bytes of the header varints
    header,       \* read's num_strings, packed_length, block_size
    sequence,     \* read's sequence
    packed_data,  \* read's packed_data
    section,      \* <<>> until read returns Ok(section), then <<section>>
    lpc,          \* where the lookup stands: idle, search, in_block, scan, done, panic
    call,         \* the lookup running: [op, id, element]
    reading,      \* how the build reads text[pos..] in locate_block
    low, high, max,   \* locate_block's locals
    blocknum,         \* locate's blocknum
    direct,           \* locate's direct
    pos, tempString, idInBlock, cshared,   \* locate_in_block's locals
    ret_string,   \* the String id_to_string returned
    ret_id,       \* the id string_to_id returned
    printed       \* the lines the lookup running has written to stdout

readVars == <<rpc, offset, buffer, header, sequence, packed_data, section>>
lookupVars == <<lpc, call, reading, low, high, max, blocknum, direct,
                pos, tempString, idInBlock, cshared, ret_string, ret_id,
                printed>>
vars == <<written, stream, readVars, lookupVars>>

\* The ways a stream differs from the section the writer was given: not at
\* all; one bit of one byte flipped; cut short; written with a header that
\* states block size 0 (checksummed as such); or written without the zero
\* byte of the last string.
Tampers(bytes) ==
    { [kind |-> "none", at |-> 0, mask |-> 0],
      [kind |-> "block_size_0", at |-> 0, mask |-> 0],
      [kind |-> "no_terminator", at |-> 0, mask |-> 0] }
    \cup { [kind |-> "flip", at |-> p, mask |-> m] :
             p \in 0..(Len(bytes) - 1), m \in {1, 128} }
    \cup { [kind |-> "cut", at |-> p, mask |-> 0] : p \in 0..(Len(bytes) - 1) }

\* The stream of dictionary d, written in blocks of bs strings, under t.
Stream(d, bs, extra, t) ==
    IF t.kind = "flip" THEN FlipBit(SectionBytes(d, bs, extra, bs), t.at, t.mask)
    ELSE IF t.kind = "cut" THEN Slice(SectionBytes(d, bs, extra, bs), 0, t.at)
    ELSE IF t.kind = "block_size_0" THEN SectionBytes(d, bs, extra, 0)
    ELSE IF t.kind = "no_terminator" THEN UnterminatedBytes(d, bs, extra)
    ELSE SectionBytes(d, bs, extra, bs)

NoCall == [op |-> "none", id |-> 0, element |-> <<>>]

Init ==
    /\ \E d \in Dictionaries, bs \in 1..MaxBlockSize, extra \in 0..1 :
          \E t \in Tampers(SectionBytes(d, bs, extra, bs)) :
             /\ written = [strings |-> d, block_size |-> bs,
                           extra |-> extra, tamper |-> t]
             /\ stream = Stream(d, bs, extra, t)
    /\ rpc = "start"
    /\ offset = 0
    /\ buffer = <<>>
    /\ header = [num_strings |-> 0, packed_length |-> 0, block_size |-> 0]
    /\ sequence = [entries |-> 0, bits_per_entry |-> 0, data |-> <<>>]
    /\ packed_data = <<>>
    /\ section = <<>>
    /\ lpc = "idle"
    /\ call = NoCall
    /\ reading = "none"
    /\ low = 0 /\ high = 0 /\ max = 0
    /\ blocknum = 0
    /\ direct = FALSE
    /\ pos = 0 /\ tempString = <<>> /\ idInBlock = 0 /\ cshared = 0
    /\ ret_string = <<>>
    /\ ret_id = 0
    /\ printed = 0

(***************************************************************************)
(* DictSectPFC::read, a step per group of reads.  A `?` that fails ends    *)
(* the call with the error: rpc = "err".                                   *)
(***************************************************************************)
\* Lines 206-214: the three header varints, their raw bytes appended to the
\* buffer that starts with the marker byte.
ReadHeader ==
    /\ rpc = "start"
    /\ LET v1 == read_vbyte(stream, 0)
           v2 == read_vbyte(stream, v1.size)
           v3 == read_vbyte(stream, v1.size + v2.size)
       IN  IF v1.ok /\ v2.ok /\ v3.ok
           THEN /\ header' = [num_strings |-> v1.value,
                              packed_length |-> v2.value,
                              block_size |-> v3.value]
                /\ offset' = v1.size + v2.size + v3.size
                /\ buffer' = <<2>> \o Slice(stream, 0, v1.size + v2.size + v3.size)
                /\ rpc' = "crc8"
           ELSE /\ rpc' = "err"
                /\ UNCHANGED <<offset, header, buffer>>
    /\ UNCHANGED <<written, stream, sequence, packed_data, section, lookupVars>>

Crc8MatchesAlways(bytes, crc_code) == TRUE

\* Lines 221-226: crc.get_crc() != crc_code is the error.
Crc8Matches(bytes, crc_code) == Crc8(bytes) = crc_code

\* Lines 216-236: the CRC-8 byte, read and compared.  packed_length >
\* usize::MAX is never true of a usize.
ReadCrc8 ==
    /\ rpc = "crc8"
    /\ IF offset < Len(stream)
       THEN /\ offset' = offset + 1
            /\ rpc' = IF Crc8Matches(buffer, stream[offset + 1])
                      THEN "sequence" ELSE "err"
       ELSE /\ rpc' = "err"
            /\ UNCHANGED offset
    /\ UNCHANGED <<written, stream, buffer, header, sequence, packed_data,
                   section, lookupVars>>

\* Lines 238-239: the packed index.
ReadSequence ==
    /\ rpc = "sequence"
    /\ LET r == SequenceRead(stream, offset)
       IN  IF r.ok
           THEN /\ sequence' = r.seq
                /\ offset' = offset + r.size
                /\ rpc' = "data"
           ELSE /\ rpc' = "err"
                /\ UNCHANGED <<offset, sequence>>
    /\ UNCHANGED <<written, stream, buffer, header, packed_data, section,
                   lookupVars>>

\* Lines 241-243: packed_length bytes of block store.
ReadPackedData ==
    /\ rpc = "data"
    /\ IF offset + header.packed_length <= Len(stream)
       THEN /\ packed_data' = Slice(stream, offset, offset + header.packed_length)
            /\ offset' = offset + header.packed_length
            /\ rpc' = "crc32"
       ELSE /\ rpc' = "err"
            /\ UNCHANGED <<offset, packed_data>>
    /\ UNCHANGED <<written, stream, buffer, header, sequence, section,
                   lookupVars>>

Crc32cMatchesAlways(bytes, crc_code) == TRUE

\* Lines 250-255: crc.get_crc() != crc_code is the error; crc_code is the
\* four stored bytes, read little-endian.
Crc32cMatches(bytes, crc_code) == Crc32c(bytes) = crc_code

NewSectionSwapped(num_strings, packed_length, block_size, seq, data) ==
    [num_strings |-> block_size, packed_length |-> packed_length,
     block_size |-> num_strings, sequence |-> seq, packed_data |-> data]

\* Lines 257-263: the DictSectPFC read returns.
NewSection(num_strings, packed_length, block_size, seq, data) ==
    [num_strings |-> num_strings, packed_length |-> packed_length,
     block_size |-> block_size, sequence |-> seq, packed_data |-> data]

\* Lines 245-264: the CRC-32C, read and compared, and the section returned.
ReadCrc32 ==
    /\ rpc = "crc32"
    /\ IF offset + 4 <= Len(stream)
       THEN /\ offset' = offset + 4
            /\ IF Crc32cMatches(packed_data, Slice(stream, offset, offset + 4))
               THEN /\ rpc' = "ok"
                    /\ section' = <<NewSection(header.num_strings,
                                               header.packed_length,
                                               header.block_size,
                                               sequence, packed_data)>>
               ELSE /\ rpc' = "err"
                    /\ UNCHANGED section
       ELSE /\ rpc' = "err"
            /\ UNCHANGED <<offset, section>>
    /\ UNCHANGED <<written, stream, buffer, header, sequence, packed_data,
                   lookupVars>>

Read == ReadHeader \/ ReadCrc8 \/ ReadSequence \/ ReadPackedData \/ ReadCrc32

(***************************************************************************)
(* The lookups.  A panic (an arithmetic overflow or a division by zero, an *)
(* index or a slice out of bounds, invalid UTF-8) ends the call in         *)
(* lpc = "panic"; a call that returns ends in lpc = "done".                *)
(***************************************************************************)
\* The section read returned.
Self == section[1]

RECURSIVE ScanNul(_, _)
\* Lines 189-191: the first position from `position` on that is past the
\* end of text or holds a zero byte.
ScanNul(text, position) ==
    IF position < Len(text) /\ text[position + 1] # 0
    THEN ScanNul(text, position + 1)
    ELSE position

\* DictSectPFC::strlen (and ByteStringUtil.strlen in locate_in_block).
strlen(text, position) == ScanNul(text, position) - position

RECURSIVE ExtractSkip(_, _, _, _)
\* Lines 162-177, the loop over 0..string_index with n rounds to go: it moves
\* position over n entries and leaves `string` as it is.  FALSE when
\* decode_vbyte_delta panics.
ExtractSkip(text, position, length, n) ==
    IF n = 0 THEN TRUE
    ELSE LET d == decode_vbyte_delta(text, position + length + 1)
         IN  IF ~d.ok THEN FALSE
             ELSE ExtractSkip(text, position + length + 1 + d.size,
                              strlen(text, position + length + 1 + d.size),
                              n - 1)

\* Lines 196-198.
num_strings(self) == self.num_strings

\* DictSectPFC::extract(id): [panic, string].
extract(self, id) ==
    LET fail == [panic |-> TRUE, string |-> <<>>]
        block_index == (IF id = 0 THEN 0 ELSE id - 1) \div self.block_size
        string_index == (IF id = 0 THEN 0 ELSE id - 1) % self.block_size
        got == SequenceGet(self.sequence, block_index)
        position == got.value
        length == strlen(self.packed_data, position)
        string == Slice(self.packed_data, position, position + length)
    IN  IF id > self.num_strings THEN [panic |-> FALSE, string |-> <<>>]
        ELSE IF self.block_size = 0 THEN fail
        ELSE IF ~got.ok THEN fail
        ELSE IF position > Len(self.packed_data) THEN fail
        ELSE IF ~ExtractSkip(self.packed_data, position, length, string_index)
        THEN fail
        ELSE IF ~ValidUtf8(string) THEN fail
        ELSE [panic |-> FALSE, string |-> string]

\* The ids id_to_string is called with.
Ids == 0..(MaxStrings + 1)

\* Lines 22-25: id_to_string(id) is extract(id).
IdToString ==
    /\ rpc = "ok" /\ lpc = "idle"
    /\ \E id \in Ids :
          /\ call' = [op |-> "id_to_string", id |-> id, element |-> <<>>]
          /\ lpc' = IF extract(Self, id).panic THEN "panic" ELSE "done"
          /\ ret_string' = extract(Self, id).string
    /\ UNCHANGED <<written, stream, readVars, reading, low, high, max,
                   blocknum, direct, pos, tempString, idInBlock, cshared,
                   ret_id, printed>>

\* The two readings of `element.cmp(text[pos..])` (line 79), text being the
\* block store: against the string that starts at pos and ends before its
\* zero byte (the strcmp of the Java this is translated from), or against
\* the slice as written, which runs to the end of the store.
Readings == {"terminated", "to_end"}

\* The string `element` is compared with at line 79.
TextFrom(text, position, mode) ==
    IF mode = "terminated"
    THEN Slice(text, position, position + strlen(text, position))
    ELSE Slice(text, position, Len(text))

\* Lines 42-43 and 67-69: locate calls locate_block, which sets out with
\* low = 0 and high = max = entries - 1.  With no entries the subtraction
\* panics in a build with overflow checks and wraps in one without.
StringToId ==
    /\ rpc = "ok" /\ lpc = "idle"
    /\ \E element \in Needles, mode \in Readings :
          /\ call' = [op |-> "string_to_id", id |-> 0, element |-> element]
          /\ reading' = mode
    /\ low' = 0
    /\ IF Self.sequence.entries > 0
       THEN /\ high' = Self.sequence.entries - 1
            /\ max' = Self.sequence.entries - 1
            /\ lpc' = "search"
       ELSE \/ /\ lpc' = "panic"
               /\ UNCHANGED <<high, max>>
            \/ /\ high' = UsizeMax
               /\ max' = UsizeMax
               /\ lpc' = "search"
    /\ UNCHANGED <<written, stream, readVars, blocknum, direct, pos,
                   tempString, idInBlock, cshared, ret_string, ret_id,
                   printed>>

\* Lines 72-86: mid, and the comparison of the element with block mid's
\* first string: [panic, mid, cmp], cmp -1 Less, 0 Equal, 1 Greater.  The
\* block mid = max is not compared: cmp is Less.
BlockCmp(self, element, mode, lo, hi, mx) ==
    LET mid == (lo + hi) \div 2
        got == SequenceGet(self.sequence, mid)
    IN  IF mid = mx THEN [panic |-> FALSE, mid |-> mid, cmp |-> -1]
        ELSE IF ~got.ok \/ got.value > Len(self.packed_data)
        THEN [panic |-> TRUE, mid |-> mid, cmp |-> 0]
        ELSE [panic |-> FALSE, mid |-> mid,
              cmp |-> CmpBytes(element,
                               TextFrom(self.packed_data, got.value, mode))]

\* Lines 71-96, one round of locate_block's loop, or its exit, and line
\* 44-47 of locate on a direct hit.  high = mid - 1 with mid = 0 panics in a
\* build with overflow checks and wraps in one without.  Lines 80-85: a
\* round that compares (mid is not max) prints a line to stdout.
LocateBlock ==
    /\ lpc = "search"
    /\ LET c == BlockCmp(Self, call.element, reading, low, high, max)
       IN  IF low <= high
           THEN IF c.panic
                THEN /\ lpc' = "panic"
                     /\ UNCHANGED <<low, high, blocknum, direct, ret_id>>
                ELSE IF c.cmp = -1
                THEN /\ UNCHANGED <<low, blocknum, direct, ret_id>>
                     /\ IF c.mid > 0
                        THEN /\ high' = c.mid - 1
                             /\ UNCHANGED lpc
                        ELSE \/ /\ lpc' = "panic"
                                /\ UNCHANGED high
                             \/ /\ high' = UsizeMax
                                /\ UNCHANGED lpc
                ELSE IF c.cmp = 1
                THEN /\ low' = c.mid + 1
                     /\ UNCHANGED <<lpc, high, blocknum, direct, ret_id>>
                ELSE /\ blocknum' = c.mid
                     /\ direct' = TRUE
                     /\ ret_id' = (c.mid * Self.block_size) + 1
                     /\ lpc' = "done"
                     /\ UNCHANGED <<low, high>>
           ELSE /\ blocknum' = low - 1
                /\ direct' = FALSE
                /\ lpc' = "in_block"
                /\ UNCHANGED <<low, high, ret_id>>
    /\ LET c == BlockCmp(Self, call.element, reading, low, high, max)
       IN  printed' = IF low <= high /\ ~c.panic /\ c.mid # max
                      THEN printed + 1 ELSE printed
    /\ UNCHANGED <<written, stream, readVars, call, reading, max, pos,
                   tempString, idInBlock, cshared, ret_string>>

LocateReturnUnchecked(self, block, p, k) ==
    IF p >= Len(self.packed_data) \/ k = 0 THEN 0
    ELSE (block * self.block_size) + k + 1

\* Lines 144-148 and 52-56: what locate returns when locate_in_block ends
\* with position p and idInBlock k.
LocateReturn(self, block, p, k) ==
    IF p >= Len(self.packed_data) \/ k = self.block_size \/ k = 0 THEN 0
    ELSE (block * self.block_size) + k + 1

\* Lines 49-50 and 100-117: locate_in_block up to its loop: the block's
\* first string into tempString.  blocknum >= 0 holds of every usize.  A
\* copy from a position past the end of the store is a panic.
LocateInBlock ==
    /\ lpc = "in_block"
    /\ LET got == SequenceGet(Self.sequence, blocknum)
           slen == strlen(Self.packed_data, got.value)
       IN  IF blocknum >= Self.sequence.entries
           THEN /\ ret_id' = 0
                /\ lpc' = "done"
                /\ UNCHANGED <<pos, tempString, idInBlock, cshared>>
           ELSE IF got.value > Len(Self.packed_data)
           THEN /\ lpc' = "panic"
                /\ UNCHANGED <<pos, tempString, idInBlock, cshared, ret_id>>
           ELSE /\ tempString' = Slice(Self.packed_data, got.value,
                                       got.value + slen)
                /\ pos' = got.value + slen + 1
                /\ idInBlock' = 1
                /\ cshared' = 0
                /\ lpc' = "scan"
                /\ UNCHANGED ret_id
    /\ UNCHANGED <<written, stream, readVars, call, reading, low, high, max,
                   blocknum, direct, ret_string, printed>>

\* Lines 119-148, one round of locate_in_block's loop, or its exit, and
\* lines 52-56 of locate when the loop is left.  tempString.replace(delta,
\* text, pos, slen) keeps the first delta bytes of tempString and appends
\* the suffix; a delta past the end of tempString, like a varint that runs
\* off the store, is a panic.
Scan ==
    /\ lpc = "scan"
    /\ LET text == Self.packed_data
           element == call.element
           d == decode_vbyte_delta(text, pos)
           p == pos + d.size
           slen == strlen(text, p)
           replaced == Slice(tempString, 0, d.value) \o Slice(text, p, p + slen)
           shared == cshared + LongestCommonPrefix(replaced, element, cshared)
       IN  IF idInBlock < Self.block_size /\ pos < Len(text)
           THEN IF ~d.ok \/ d.value > Len(tempString)
                THEN /\ lpc' = "panic"
                     /\ UNCHANGED <<pos, tempString, idInBlock, cshared, ret_id>>
                ELSE IF d.value >= cshared
                THEN /\ tempString' = replaced
                     /\ cshared' = shared
                     /\ IF shared = Len(element) /\ Len(replaced) = Len(element)
                        THEN /\ pos' = p
                             /\ ret_id' = LocateReturn(Self, blocknum, p, idInBlock)
                             /\ lpc' = "done"
                             /\ UNCHANGED idInBlock
                        ELSE /\ pos' = p + slen + 1
                             /\ idInBlock' = idInBlock + 1
                             /\ UNCHANGED <<lpc, ret_id>>
                ELSE /\ tempString' = replaced
                     /\ pos' = p
                     /\ idInBlock' = 0
                     /\ ret_id' = LocateReturn(Self, blocknum, p, 0)
                     /\ lpc' = "done"
                     /\ UNCHANGED cshared
           ELSE /\ ret_id' = LocateReturn(Self, blocknum, pos, idInBlock)
                /\ lpc' = "done"
                /\ UNCHANGED <<pos, tempString, idInBlock, cshared>>
    /\ UNCHANGED <<written, stream, readVars, call, reading, low, high, max,
                   blocknum, direct, ret_string, printed>>

\* The caller has the result of the call; the section is ready for the next.
Return ==
    /\ lpc = "done"
    /\ lpc' = "idle"
    /\ call' = NoCall
    /\ reading' = "none"
    /\ low' = 0 /\ high' = 0 /\ max' = 0
    /\ blocknum' = 0
    /\ direct' = FALSE
    /\ pos' = 0 /\ tempString' = <<>> /\ idInBlock' = 0 /\ cshared' = 0
    /\ ret_string' = <<>>
    /\ ret_id' = 0
    /\ printed' = 0
    /\ UNCHANGED <<written, stream, readVars>>

Lookup == IdToString \/ StringToId \/ LocateBlock \/ LocateInBlock \/ Scan \/ Return

Next == Read \/ Lookup

Spec == Init /\ [][Next]_vars

(***************************************************************************)
(* What the claims are stated with.                                        *)
(***************************************************************************)
\* A lookup has ended, by returning or by panicking.
Ended == lpc \in {"done", "panic"}

\* read returned a section of a stream as the writer made it, of a dictionary
\* that is not empty, with one index entry per block and strings that are
\* UTF-8: a section of the data model.
WellFormed ==
    /\ rpc = "ok"
    /\ written.tamper.kind = "none"
    /\ written.extra = 0
    /\ Len(written.strings) > 0
    /\ \A i \in 1..Len(written.strings) : ValidUtf8(written.strings[i])

RECURSIVE BlockEntry(_, _, _)
\* Entry k of block `block` of the store, front-decoded: [string, next], next
\* the offset after the entry's zero byte.  Entry 0 is taken verbatim, entry
\* k is previous[0..shared_prefix_len] + suffix.
BlockEntry(self, block, k) ==
    IF k = 0
    THEN LET p == SequenceGet(self.sequence, block).value
             l == strlen(self.packed_data, p)
         IN  [string |-> Slice(self.packed_data, p, p + l), next |-> p + l + 1]
    ELSE LET prev == BlockEntry(self, block, k - 1)
             d == decode_vbyte_delta(self.packed_data, prev.next)
             q == prev.next + d.size
             l == strlen(self.packed_data, q)
         IN  [string |-> Slice(prev.string, 0, d.value)
                         \o Slice(self.packed_data, q, q + l),
              next |-> q + l + 1]

\* The string id stands for, 1 <= id <= num_strings.
StringOf(self, id) ==
    BlockEntry(self, (id - 1) \div self.block_size,
               (id - 1) % self.block_size).string

\* The first string of block b.
FirstString(self, b) == BlockEntry(self, b, 0).string

\* The blocks whose first string is at most the element.
BlocksUpTo(self, element) ==
    { b \in 0..(self.sequence.entries - 1) :
        CmpBytes(FirstString(self, b), element) <= 0 }

\* C1: round trip: on a section of the data model, for every id in
\* 1..num_strings, string_to_id of the string id_to_string(id) returns
\* ends by returning id.
C1_RoundTrip ==
    (WellFormed /\ Ended /\ call.op = "string_to_id") =>
        \A id \in 1..num_strings(Self) :
            (~extract(Self, id).panic
             /\ call.element = extract(Self, id).string)
            => (lpc = "done" /\ ret_id = id)

\* C2: on a section of the data model, for every id in 1..num_strings,
\* id_to_string(id) returns the front-decoded string at local position
\* (id - 1) % block_size of block (id - 1) / block_size.
C2_IdToStringDecodes ==
    (WellFormed /\ Ended /\ call.op = "id_to_string"
     /\ 1 <= call.id /\ call.id <= num_strings(Self))
    => (lpc = "done" /\ ret_string = StringOf(Self, call.id))

\* C3: id_to_string returns the empty string, without error, for id 0 and
\* for every id above num_strings.
C3_InvalidIdEmpty ==
    (WellFormed /\ Ended /\ call.op = "id_to_string"
     /\ (call.id = 0 \/ call.id > num_strings(Self)))
    => (lpc = "done" /\ ret_string = <<>>)

\* C4: absence: on a section of the data model, string_to_id of a needle
\* that is none of the section's strings returns 0 and does not fail.
C4_AbsentIsZero ==
    (WellFormed /\ Ended /\ call.op = "string_to_id"
     /\ \A i \in 1..Len(written.strings) : written.strings[i] # call.element)
    => (lpc = "done" /\ ret_id = 0)

\* The offsets of the stream at which the three header varints (one byte
\* each, every header value of the model being below 128) and the block
\* store of the section as written lie.
HeaderOffsets == 0..2
StoreOffsets ==
    LET n == Len(BlockStore(written.strings, written.block_size,
                            Len(written.strings)))
        total == Len(SectionBytes(written.strings, written.block_size,
                                  written.extra, written.block_size))
    IN  (total - 4 - n)..(total - 5)

\* C5: checksum enforcement: read returns a section only if the stored
\* CRC-8 byte is the CRC-8 of the marker byte 0x02 and the raw bytes of the
\* three header varints, and the four stored bytes after the block store are
\* the little-endian CRC-32C of the packed_length bytes of the block store;
\* no stream with one bit of a header or block-store byte flipped yields a
\* section.
C5_ChecksumEnforced ==
    /\ section # <<>> =>
          LET h == Len(buffer) - 1
          IN  /\ buffer = <<2>> \o Slice(stream, 0, h)
              /\ Len(stream) >= h + 1 /\ stream[h + 1] = Crc8(buffer)
              /\ offset >= 4 + Self.packed_length
              /\ Self.packed_data
                    = Slice(stream, offset - 4 - Self.packed_length, offset - 4)
              /\ Slice(stream, offset - 4, offset) = Crc32c(Self.packed_data)
    /\ (written.tamper.kind = "flip"
        /\ written.tamper.at \in HeaderOffsets \cup StoreOffsets)
       => section = <<>>

\* C5's case: read returned a section with a block store that is not empty,
\* both checksums having matched.
C5_Witness ==
    /\ rpc = "ok" /\ section # <<>>
    /\ Len(Self.packed_data) > 0
    /\ Crc8Matches(buffer, stream[Len(buffer)])

\* C6: once read has returned a section of the data model, no id_to_string
\* and no string_to_id panics.
C6_NoPanic == WellFormed => lpc # "panic"

\* C7: order preservation: on a section of the data model, for all ids
\* i < j in 1..num_strings, id_to_string(i) is strictly less than
\* id_to_string(j) in byte-wise lexicographic order.
C7_OrderPreserved ==
    WellFormed =>
        \A i, j \in 1..num_strings(Self) :
            i < j => /\ ~extract(Self, i).panic
                     /\ ~extract(Self, j).panic
                     /\ CmpBytes(extract(Self, i).string,
                                 extract(Self, j).string) = -1

\* C8: every section read returns of a stream as the writer made it, of a
\* dictionary that is not empty, has one index entry per block:
\* ceil(num_strings / block_size) = index.len().
C8_OneEntryPerBlock ==
    (section # <<>> /\ written.tamper.kind = "none"
     /\ Len(written.strings) > 0) =>
        CeilDiv(num_strings(Self), Self.block_size) = Self.sequence.entries

\* C9: a section read returns carries the header values in wire order, the
\* first varint as num_strings, the second as packed_length, the third as
\* block_size, its block store holds exactly packed_length bytes (the ones
\* the writer stored), and num_strings() returns the num_strings header
\* value.
C9_HeaderOrder ==
    section # <<>> =>
        LET full == BlockStore(written.strings, written.block_size,
                               Len(written.strings))
            store == IF written.tamper.kind = "no_terminator"
                     THEN Slice(full, 0, Len(full) - 1) ELSE full
        IN  /\ num_strings(Self) = Len(written.strings)
            /\ Self.packed_length = Len(store)
            /\ Self.block_size
                  = IF written.tamper.kind = "block_size_0" THEN 0
                    ELSE written.block_size
            /\ Len(Self.packed_data) = Self.packed_length
            /\ Self.packed_data = store

\* C9's case: read returned a section whose three header values are
\* pairwise different, so that their order shows.
C9_Witness ==
    /\ section # <<>>
    /\ num_strings(Self) # Self.packed_length
    /\ num_strings(Self) # Self.block_size
    /\ Self.packed_length # Self.block_size
    /\ Self.block_size > 0

\* C10: the postcondition of locate_block on a section of the data model:
\* when the needle is the first string of a block b, it returns (b, true)
\* and the id is b * block_size + 1; when it is not, and some block's first
\* string is below it, it returns (b, false) with b the greatest block whose
\* first string is at most the needle.
C10_LocateBlockPost ==
    (WellFormed /\ call.op = "string_to_id"
     /\ lpc \in {"in_block", "scan", "done", "panic"})
    => LET upTo == BlocksUpTo(Self, call.element)
           greatest == CHOOSE b \in upTo : \A c \in upTo : c <= b
       IN  IF upTo = {} THEN TRUE
           ELSE IF FirstString(Self, greatest) = call.element
           THEN /\ lpc = "done" /\ direct /\ blocknum = greatest
                /\ ret_id = (greatest * Self.block_size) + 1
           ELSE /\ lpc # "panic" /\ ~direct /\ blocknum = greatest

\* The local positions 1 <= p < block_size of block `block` whose entry is
\* one of the section's strings and equals the element byte for byte.
MatchesInBlock(self, block, element) ==
    { p \in 1..(self.block_size - 1) :
        /\ (block * self.block_size) + p + 1 <= num_strings(self)
        /\ StringOf(self, (block * self.block_size) + p + 1) = element }

\* locate_in_block has a candidate block of a stream as the writer made it
\* (its strings sorted) and a needle greater than the block's first string.
ScanCase ==
    /\ rpc = "ok" /\ written.tamper.kind = "none"
    /\ call.op = "string_to_id" /\ lpc = "scan"
    /\ blocknum * Self.block_size < num_strings(Self)
    /\ CmpBytes(FirstString(Self, blocknum), call.element) = -1

C12_NoWrap ==
    (WellFormed /\ call.op = "string_to_id") =>
        /\ Self.sequence.entries > 0
        /\ high <= Self.sequence.entries - 1
        /\ lpc = "search" =>
              LET c == BlockCmp(Self, call.element, reading, low, high, max)
              IN  IF low <= high
                  THEN ~(~c.panic /\ c.cmp = -1 /\ c.mid = 0)
                  ELSE low > 0

\* C13: on a section of a stream with the index as the writer made it,
\* id_to_string of an id in 1..num_strings whose block's first string has
\* no zero byte between its offset and the end of the block store (the
\* offset at the end of the store or past it included) fails; it does not
\* return.
C13_UnterminatedFails ==
    (section # <<>> /\ written.tamper.kind \in {"none", "no_terminator"}
     /\ Ended /\ call.op = "id_to_string"
     /\ 1 <= call.id /\ call.id <= num_strings(Self)) =>
        LET block_index == (call.id - 1) \div Self.block_size
            got == SequenceGet(Self.sequence, block_index)
        IN  (got.ok /\ ScanNul(Self.packed_data, got.value)
                          >= Len(Self.packed_data))
            => lpc = "panic"

\* C14: on a section of the data model, string_to_id steps from Searching
\* (search) to an exact block hit (done, direct) or to the intra-block scan
\* (in_block, scan) and from there to Found or NotFound (done), never back
\* and never to a panic; a round of the binary search that goes on has
\* narrowed [low, high], a round of the scan that goes on has moved to the
\* next entry, below block_size; and the id returned is 0 or in
\* 1..num_strings.
C14_StateMachine ==
    [][(WellFormed /\ call'.op = "string_to_id") =>
          /\ lpc = "idle" => lpc' = "search"
          /\ lpc = "search" =>
                \/ lpc' = "search" /\ high' - low' < high - low
                \/ lpc' = "in_block"
                \/ lpc' = "done" /\ direct'
          /\ lpc = "in_block" => lpc' \in {"scan", "done"}
          /\ lpc = "scan" =>
                \/ /\ lpc' = "scan"
                   /\ idInBlock' = idInBlock + 1
                   /\ idInBlock' <= Self.block_size
                \/ lpc' = "done"
          /\ lpc' = "done" => ret_id' \in 0..num_strings(Self)]_vars

\* C15: on a section of the data model, no step of a lookup changes a field
\* of the section, reads from the stream, or writes to stdout.
C15_PureLookups ==
    [][(WellFormed /\ lpc # "done") =>
          /\ section' = section
          /\ stream' = stream /\ offset' = offset
          /\ printed' = printed]_vars

\* C16: the order of read's steps: the packed index is read and the block
\* store's buffer filled only after the header's CRC-8 has matched; a read
\* that fails on the header's CRC-8 has consumed the three varints and the
\* CRC byte and nothing more; and there is a section exactly when read has
\* returned Ok, after the CRC-32C of the block store has matched.
C16_ReadOrder ==
    /\ rpc \in {"start", "crc8"} =>
          /\ sequence = [entries |-> 0, bits_per_entry |-> 0, data |-> <<>>]
          /\ packed_data = <<>>
    /\ rpc \in {"sequence", "data", "crc32", "ok"} =>
          /\ offset >= Len(buffer)
          /\ Crc8(buffer) = stream[Len(buffer)]
    /\ (rpc = "err" /\ buffer # <<>> /\ offset >= Len(buffer)
        /\ Crc8(buffer) # stream[Len(buffer)]) =>
          /\ offset = Len(buffer)
          /\ sequence = [entries |-> 0, bits_per_entry |-> 0, data |-> <<>>]
          /\ packed_data = <<>>
    /\ section # <<>> <=> rpc = "ok"
    /\ section # <<>> =>
          /\ Self.packed_data = packed_data
          /\ Self.sequence = sequence
          /\ Crc32c(packed_data) = Slice(stream, offset - 4, offset)

\* C16's case: read has failed on the header's CRC-8 with more of the stream
\* left to read.
C16_Witness ==
    /\ rpc = "err" /\ buffer # <<>>
    /\ offset = Len(buffer)
    /\ Crc8(buffer) # stream[Len(buffer)]
    /\ Len(stream) > offset
    /\ section = <<>>
=============================================================================
